---------------------------- MODULE Spec2Model ----------------------------
(***************************************************************************)
(* sympy/assumptions/assume.py as a state machine.                         *)
(*                                                                         *)
(* Two components that share no mutable state:                             *)
(*   - the global fact store (AssumptionsContext, global_assumptions) and  *)
(*     the assuming(...) context manager that scopes it;                   *)
(*   - an AssumptionsPredicate with its handler list and eval, the         *)
(*     dispatch over the handlers and the merge of their answers.          *)
(* SpecStore and SpecPred run one component each, Spec runs both.          *)
(***************************************************************************)
EXTENDS Naturals, Sequences, FiniteSets

VARIABLES
    global_assumptions,  \* content of the module-level AssumptionsContext
    scopes,              \* open assuming(...) generators, innermost last
    exc,                 \* the exception in flight, "none" when there is none
    last,                \* what the last store operation was and observed
    handlers,            \* self.handlers of the predicate
    result,              \* the outcome of the last call on the predicate
    regions,             \* two assuming(...) regions run by two threads of control
    events,              \* the steps the two regions have taken, in order
    base,                \* the store's content before either region began
    heap,                \* the list objects: identity |-> items
    refs,                \* which list object each name refers to
    owned                \* what the last call on a predicate's list observed

storeVars == <<global_assumptions, scopes, exc, last>>
predVars == <<handlers, result>>
threadVars == <<regions, events, base>>
ownVars == <<heap, refs, owned>>
auxVars == <<regions, events, base, heap, refs, owned>>
vars == <<global_assumptions, scopes, exc, last, handlers, result,
          regions, events, base, heap, refs, owned>>

---------------------------------------------------------------------------
(* Bounds and input universes                                              *)

NumFacts == 2
MaxDepth == 2
MaxHandlers == 3

\* Facts are applied predicates such as Q.real(x); only their identity matters.
Facts == 1..NumFacts

\* Tuples of facts a caller may pass as the variadic assumptions (repetitions allowed).
ArgTuples == {<<>>} \cup {<<a>> : a \in Facts} \cup {<<a, b>> : a, b \in Facts}

\* Errors a scope body may raise.
Errors == {"KeyError", "RuntimeError"}

\* The fact sets a caller may pass to eval: none, or every fact.
FactSets == {{}, Facts}

Range(s) == {s[i] : i \in DOMAIN s}

---------------------------------------------------------------------------
(* AssumptionsContext: a set with a variadic add                           *)

\* set.add of one element
set_add(s, a) == s \cup {a}

\* An add whose loop ends after the first argument.
add_first_only(s, assumptions) ==
    IF assumptions = <<>> THEN s ELSE set_add(s, Head(assumptions))

\* AssumptionsContext.add(a1, ..., an): one set.add per argument, in order
RECURSIVE add(_, _)
add(s, assumptions) ==
    IF assumptions = <<>> THEN s
    ELSE add(set_add(s, Head(assumptions)), Tail(assumptions))

\* set.copy: a new set object with the same elements
copy(s) == {a \in s : TRUE}

\* set.update(iterable): every element of the iterable is inserted
update(s, elems) == s \cup elems

\* set.clear
clear(s) == {}

\* set.remove(a): KeyError when a is absent, the set is then left as it was
remove(s, a) ==
    IF a \in s THEN [raised |-> "none", set |-> s \ {a}]
    ELSE [raised |-> "KeyError", set |-> s]

---------------------------------------------------------------------------
(* assuming(a1, ..., an): the generator behind the context manager        *)

\* An entry that takes the snapshot and never inserts the scope's facts.
assuming_enter_without_update(store, assumptions) ==
    [old_global_assumptions |-> copy(store), store |-> store]

\* Lines before the yield: snapshot, then insert the scope's facts.
assuming_enter(store, assumptions) ==
    [old_global_assumptions |-> copy(store),
     store |-> update(store, Range(assumptions))]

\* A restore that forgets to empty the store first.
restore_without_clear(store, old) == update(store, old)

\* The finally block: clear, then refill from the snapshot.
restore(store, old) == update(clear(store), old)

\* A restore placed after the yield with no try/finally around it: it runs
\* on the normal path only.
assuming_exit_no_finally(store, old, e) ==
    [store |-> IF e = "none" THEN restore(store, old) ELSE store, exc |-> e]

\* try: yield / finally: restore.  e is the exception thrown into the
\* generator at the yield ("none" on a normal exit); finally neither catches
\* nor replaces it.
assuming_exit(store, old, e) ==
    [store |-> restore(store, old), exc |-> e]

\* One snapshot slot shared by every open scope instead of a local per
\* generator: entering a scope overwrites the snapshots of the enclosing ones.
push_shared(stack, frame) ==
    Append([i \in DOMAIN stack |->
              [stack[i] EXCEPT !.old_global_assumptions =
                                   frame.old_global_assumptions]],
           frame)

\* Each generator keeps its own local old_global_assumptions.
push(stack, frame) == Append(stack, frame)

Front(s) == SubSeq(s, 1, Len(s) - 1)

NoLast ==
    [op |-> "none", path |-> "none", S |-> {}, changed |-> FALSE,
     nested |-> FALSE, depth |-> 0, raised |-> "none",
     present |-> FALSE, value |-> "None"]

Did(op) == [NoLast EXCEPT !.op = op]

---------------------------------------------------------------------------
(* Store actions                                                           *)

\* global_assumptions.add(a1, ..., an)
Add(assumptions) ==
    /\ exc = "none"
    /\ global_assumptions' = add(global_assumptions, assumptions)
    /\ last' = [Did("add") EXCEPT
                    !.S = global_assumptions,
                    !.changed = (add(global_assumptions, assumptions)
                                     # global_assumptions),
                    !.present = (/\ assumptions # <<>>
                                 /\ Range(assumptions) \subseteq global_assumptions)]
    /\ UNCHANGED <<scopes, exc, handlers, result, auxVars>>

\* global_assumptions.remove(a)
Remove(a) ==
    /\ exc = "none"
    /\ LET r == remove(global_assumptions, a) IN
         /\ global_assumptions' = r.set
         /\ exc' = r.raised
    /\ last' = Did("remove")
    /\ UNCHANGED <<scopes, handlers, result, auxVars>>

\* global_assumptions.clear()
Clear ==
    /\ exc = "none"
    /\ global_assumptions' = clear(global_assumptions)
    /\ last' = Did("clear")
    /\ UNCHANGED <<scopes, exc, handlers, result, auxVars>>

\* with assuming(a1, ..., an): runs the generator up to its yield
Enter(assumptions) ==
    /\ exc = "none"
    /\ Len(scopes) < MaxDepth
    /\ LET g == assuming_enter(global_assumptions, assumptions)
           outer == [i \in DOMAIN scopes |-> [scopes[i] EXCEPT !.nested = TRUE]]
       IN /\ global_assumptions' = g.store
          /\ scopes' = push(outer,
                            [old_global_assumptions |-> g.old_global_assumptions,
                             S |-> global_assumptions,
                             nested |-> FALSE])
    /\ last' = Did("enter")
    /\ UNCHANGED <<exc, handlers, result, auxVars>>

\* The code running at the current nesting level raises e.
Raise(e) ==
    /\ exc = "none"
    /\ exc' = e
    /\ last' = Did("raise")
    /\ UNCHANGED <<global_assumptions, scopes, handlers, result, auxVars>>

\* The code at the current nesting level catches the exception in flight.
Catch ==
    /\ exc # "none"
    /\ exc' = "none"
    /\ last' = Did("catch")
    /\ UNCHANGED <<global_assumptions, scopes, handlers, result, auxVars>>

\* Control leaves the innermost with block: normally when no exception is in
\* flight, by propagation otherwise.  The generator is resumed (or thrown
\* into), its finally block runs, and the exception, if any, goes on to the
\* code around the with block.
Exit ==
    /\ scopes # <<>>
    /\ LET top == scopes[Len(scopes)]
           g == assuming_exit(global_assumptions, top.old_global_assumptions, exc)
       IN /\ global_assumptions' = g.store
          /\ exc' = g.exc
          /\ last' = [NoLast EXCEPT
                        !.op = "exit",
                        !.path = IF exc = "none" THEN "normal" ELSE "error",
                        !.S = top.S,
                        !.changed = (global_assumptions # top.S),
                        !.nested = top.nested,
                        !.depth = Len(scopes),
                        !.raised = exc]
    /\ scopes' = Front(scopes)
    /\ UNCHANGED <<handlers, result, auxVars>>

NextStore ==
    \/ \E t \in ArgTuples : Add(t)
    \/ \E a \in Facts : Remove(a)
    \/ Clear
    \/ \E t \in ArgTuples : Enter(t)
    \/ \E e \in Errors : Raise(e)
    \/ Catch
    \/ Exit

InitStore ==
    /\ global_assumptions = {}
    /\ scopes = <<>>
    /\ exc = "none"
    /\ last = NoLast

---------------------------------------------------------------------------
(* Expression nodes, their lineage, and the handler classes                *)

\* The expressions asked about, one per type.
Nodes == {"Integer", "Rational", "Symbol"}

\* inspect.getmro(type(expr)): the names of the type and of its ancestors,
\* most specific first, ending with object.
mro(expr) ==
    CASE expr = "Integer" -> <<"Integer", "Rational", "Expr", "Basic", "object">>
      [] expr = "Rational" -> <<"Rational", "Expr", "Basic", "object">>
      [] expr = "Symbol" -> <<"Symbol", "Expr", "Basic", "object">>

\* The handler identifiers that may be registered.
HandlerIds == {"AskTrue", "AskFalse", "AskNone", "AskSpecific", "AskFacts",
               "no.such.Handler"}

\* What get_class finds for each identifier: the class's static methods, by
\* name.  A method is described by what it returns:
\*   "True", "False", "None" : that constant;
\*   "InFacts"               : True when fact 1 is among the assumptions,
\*                             None otherwise.
\* AskSpecific answers None for an Integer although its Rational method
\* would answer True.
Classes ==
    [AskTrue     |-> [Basic |-> "True"],
     AskFalse    |-> [Basic |-> "False"],
     AskNone     |-> [Expr |-> "None"],
     AskSpecific |-> [Integer |-> "None", Rational |-> "True"],
     AskFacts    |-> [Symbol |-> "InFacts"]]

\* get_class(handler): the class, or the resolver's error for an identifier
\* that names no class.
get_class(handler) ==
    IF handler \in DOMAIN Classes
    THEN [raised |-> "none", cls |-> Classes[handler]]
    ELSE [raised |-> "UnresolvableHandlerError", cls |-> <<>>]

\* eval(expr, assumptions) of one handler method
call(method, expr, assumptions) ==
    IF method = "InFacts"
    THEN (IF 1 \in assumptions THEN "True" ELSE "None")
    ELSE method

---------------------------------------------------------------------------
(* AssumptionsPredicate.eval                                               *)

\* The inner loop taken from the least specific type upwards.
RECURSIVE last_match(_, _, _)
last_match(cls, lineage, j) ==
    IF j < 1 THEN 0
    ELSE IF lineage[j] \in DOMAIN cls THEN j
    ELSE last_match(cls, lineage, j - 1)

\* for subclass in mro: try getattr(cls, subclass.__name__) except
\* AttributeError: continue ... break.  The position in the lineage of the
\* first type, from j on, that cls has a method for; 0 when there is none.
RECURSIVE first_match(_, _, _)
first_match(cls, lineage, j) ==
    IF j > Len(lineage) THEN 0
    ELSE IF lineage[j] \in DOMAIN cls THEN j
    ELSE first_match(cls, lineage, j + 1)

\* A resolver failure taken for a handler with no method.
handler_result_skipping(handler, expr, assumptions) ==
    LET c == get_class(handler) IN
    IF c.raised # "none" THEN [kind |-> "abstain", error |-> "none",
                               value |-> "None", calls |-> <<>>]
    ELSE LET j == first_match(c.cls, mro(expr), 1) IN
         IF j = 0 THEN [kind |-> "abstain", error |-> "none",
                        value |-> "None", calls |-> <<>>]
         ELSE [kind |-> "res", error |-> "none",
               value |-> call(c.cls[mro(expr)[j]], expr, assumptions),
               calls |-> << <<handler, mro(expr)[j]>> >>]

\* A getattr with no except clause around it.
handler_result_uncaught(handler, expr, assumptions) ==
    LET c == get_class(handler) IN
    IF c.raised # "none" THEN [kind |-> "raise", error |-> c.raised,
                               value |-> "None", calls |-> <<>>]
    ELSE IF mro(expr)[1] \notin DOMAIN c.cls
         THEN [kind |-> "raise", error |-> "AttributeError",
               value |-> "None", calls |-> <<>>]
         ELSE [kind |-> "res", error |-> "none",
               value |-> call(c.cls[mro(expr)[1]], expr, assumptions),
               calls |-> << <<handler, mro(expr)[1]>> >>]

\* The dispatch of the last matching type instead of the first.
handler_result_last(handler, expr, assumptions) ==
    LET c == get_class(handler) IN
    IF c.raised # "none" THEN [kind |-> "raise", error |-> c.raised,
                               value |-> "None", calls |-> <<>>]
    ELSE LET j == last_match(c.cls, mro(expr), Len(mro(expr))) IN
         IF j = 0 THEN [kind |-> "abstain", error |-> "none",
                        value |-> "None", calls |-> <<>>]
         ELSE [kind |-> "res", error |-> "none",
               value |-> call(c.cls[mro(expr)[j]], expr, assumptions),
               calls |-> << <<handler, mro(expr)[j]>> >>]

\* One turn of the outer loop up to the call of the method: resolve the
\* handler (an error of get_class is not caught), look for the first type of
\* the lineage the class has a method for, and call that method.
\*   kind "raise"   : get_class failed with error;
\*   kind "abstain" : the class has no method for any type of the lineage;
\*   kind "res"     : the method was called and returned value.
\* calls lists the methods invoked, as <<handler, type name>>.
handler_result(handler, expr, assumptions) ==
    LET c == get_class(handler) IN
    IF c.raised # "none" THEN [kind |-> "raise", error |-> c.raised,
                               value |-> "None", calls |-> <<>>]
    ELSE LET j == first_match(c.cls, mro(expr), 1) IN
         IF j = 0 THEN [kind |-> "abstain", error |-> "none",
                        value |-> "None", calls |-> <<>>]
         ELSE [kind |-> "res", error |-> "none",
               value |-> call(c.cls[mro(expr)[j]], expr, assumptions),
               calls |-> << <<handler, mro(expr)[j]>> >>]

\* A merge with no consistency check: the later answer is kept.
merge_unchecked(res, prev) ==
    IF prev = "None" THEN [raised |-> "none", res |-> res, prev |-> res]
    ELSE IF res = "None" THEN [raised |-> "none", res |-> prev, prev |-> prev]
    ELSE [raised |-> "none", res |-> res, prev |-> prev]

\* A merge that lets a later None stand as the answer.
merge_none_overrides(res, prev) ==
    IF prev = "None" THEN [raised |-> "none", res |-> res, prev |-> res]
    ELSE IF res = "None" THEN [raised |-> "none", res |-> res, prev |-> prev]
    ELSE IF prev # res THEN [raised |-> "ValueError", res |-> res, prev |-> prev]
    ELSE [raised |-> "none", res |-> res, prev |-> prev]

\* A merge that takes any second conclusive answer for a conflict.
merge_strict(res, prev) ==
    IF prev = "None" THEN [raised |-> "none", res |-> res, prev |-> res]
    ELSE IF res = "None" THEN [raised |-> "none", res |-> prev, prev |-> prev]
    ELSE [raised |-> "ValueError", res |-> res, prev |-> prev]

\* A merge that compares a conclusive answer with the running answer even
\* while the running answer is still None, and so never adopts it.
merge_without_adopt(res, prev) ==
    IF res = "None" THEN [raised |-> "none", res |-> prev, prev |-> prev]
    ELSE IF prev # res THEN [raised |-> "ValueError", res |-> res, prev |-> prev]
    ELSE [raised |-> "none", res |-> res, prev |-> prev]

\* The merge of a method's answer res into the running answer; prev is _res.
\* ValueError stands for ValueError('incompatible resolutors').
merge(res, prev) ==
    IF prev = "None" THEN [raised |-> "none", res |-> res, prev |-> res]
    ELSE IF res = "None" THEN [raised |-> "none", res |-> prev, prev |-> prev]
    ELSE IF prev # res THEN [raised |-> "ValueError", res |-> res, prev |-> prev]
    ELSE [raised |-> "none", res |-> res, prev |-> prev]

\* res, _res = None, None; calls and resolved record, in order, the methods
\* invoked and the identifiers handed to get_class.
eval_start == [res |-> "None", prev |-> "None", calls |-> <<>>, resolved |-> <<>>]

\* for handler in self.handlers, from the i-th on, then return res.
RECURSIVE eval_from(_, _, _, _, _)
eval_from(hs, i, expr, assumptions, st) ==
    IF i > Len(hs)
    THEN [outcome |-> "return", value |-> st.res, error |-> "none",
          calls |-> st.calls, resolved |-> st.resolved]
    ELSE
      LET h == handler_result(hs[i], expr, assumptions)
          seen == Append(st.resolved, hs[i])
      IN CASE h.kind = "raise" ->
                [outcome |-> "raise", value |-> "None", error |-> h.error,
                 calls |-> st.calls, resolved |-> seen]
           [] h.kind = "abstain" ->
                eval_from(hs, i + 1, expr, assumptions,
                          [st EXCEPT !.resolved = seen])
           [] h.kind = "res" ->
                LET m == merge(h.value, st.prev)
                    called == st.calls \o h.calls
                IN IF m.raised # "none"
                   THEN [outcome |-> "raise", value |-> "None",
                         error |-> m.raised, calls |-> called,
                         resolved |-> seen]
                   ELSE eval_from(hs, i + 1, expr, assumptions,
                                  [res |-> m.res, prev |-> m.prev,
                                   calls |-> called, resolved |-> seen])

\* The position of the first handler of hs whose outcome satisfies Hit, the
\* length of hs when there is none.
FirstHit(hs, expr, assumptions, Hit(_)) ==
    LET hit == {i \in DOMAIN hs : Hit(handler_result(hs[i], expr, assumptions))}
    IN IF hit = {} THEN Len(hs)
       ELSE CHOOSE i \in hit : \A j \in hit : i <= j

\* An outer loop left after the first handler whose method was called: that
\* handler's answer, None included, settles the evaluation.
eval_stops_at_first_match(hs, expr, assumptions) ==
    eval_from(SubSeq(hs, 1, FirstHit(hs, expr, assumptions,
                                     LAMBDA h : h.kind = "res")),
              1, expr, assumptions, eval_start)

\* An outer loop left after the first conclusive answer.
eval_short_circuit(hs, expr, assumptions) ==
    eval_from(SubSeq(hs, 1, FirstHit(hs, expr, assumptions,
                                     LAMBDA h : h.kind = "res" /\ h.value # "None")),
              1, expr, assumptions, eval_start)

\* A conflict that is noted and raised only after the loop has gone through
\* the remaining handlers.
eval_deferred_raise(hs, expr, assumptions) ==
    LET r == eval_from(hs, 1, expr, assumptions, eval_start)
        k == Len(r.resolved)
        rest == eval_from(hs, k + 1, expr, assumptions,
                          [eval_start EXCEPT !.calls = r.calls,
                                             !.resolved = r.resolved])
    IN IF r.outcome = "raise" /\ r.error = "ValueError"
       THEN [outcome |-> "raise", value |-> "None",
             error |-> IF rest.error = "UnresolvableHandlerError"
                       THEN rest.error ELSE r.error,
             calls |-> rest.calls, resolved |-> rest.resolved]
       ELSE r

\* AssumptionsPredicate.eval(expr, assumptions)
eval(hs, expr, assumptions) == eval_from(hs, 1, expr, assumptions, eval_start)

---------------------------------------------------------------------------
(* The handler list                                                        *)

\* list.append
append(l, h) == Append(l, h)

\* The position of the first item of l equal to h, 0 when there is none.
RECURSIVE index(_, _, _)
index(l, h, i) ==
    IF i > Len(l) THEN 0
    ELSE IF l[i] = h THEN i
    ELSE index(l, h, i + 1)

\* A removal of every item equal to h.
list_remove_all(l, h) ==
    IF index(l, h, 1) = 0 THEN [raised |-> "ValueError", list |-> l]
    ELSE [raised |-> "none", list |-> SelectSeq(l, LAMBDA x : x # h)]

\* list.remove(h): deletes the first item equal to h; ValueError when there
\* is none, the list is then left as it was.
list_remove(l, h) ==
    LET i == index(l, h, 1) IN
    IF i = 0 THEN [raised |-> "ValueError", list |-> l]
    ELSE [raised |-> "none",
          list |-> SubSeq(l, 1, i - 1) \o SubSeq(l, i + 1, Len(l))]

\* An add_handler that skips a handler already registered.
add_handler_dedup(l, handler) ==
    [raised |-> "none",
     list |-> IF index(l, handler, 1) # 0 THEN l ELSE append(l, handler)]

\* An add_handler that resolves the identifier at once and fails with the
\* resolver's error.
add_handler_eager(l, handler) ==
    IF get_class(handler).raised # "none"
    THEN [raised |-> get_class(handler).raised, list |-> l]
    ELSE [raised |-> "none", list |-> append(l, handler)]

\* self.handlers.append(handler): the identifier is not resolved here, and
\* nothing can fail.
add_handler(l, handler) == [raised |-> "none", list |-> append(l, handler)]

\* self.handlers.remove(handler)
remove_handler(l, handler) == list_remove(l, handler)

NoResult ==
    [op |-> "none", outcome |-> "none", error |-> "none", value |-> "None",
     handler |-> "none", before |-> <<>>, expr |-> "none", assumptions |-> {},
     calls |-> <<>>, resolved |-> <<>>]

---------------------------------------------------------------------------
(* Predicate actions                                                       *)

AddHandler(h) ==
    /\ Len(handlers) < MaxHandlers
    /\ LET r == add_handler(handlers, h) IN
         /\ handlers' = r.list
         /\ result' = [NoResult EXCEPT
                         !.op = "add_handler",
                         !.outcome = IF r.raised = "none" THEN "return" ELSE "raise",
                         !.error = r.raised,
                         !.handler = h, !.before = handlers]
    /\ UNCHANGED <<storeVars, auxVars>>

RemoveHandler(h) ==
    /\ LET r == remove_handler(handlers, h) IN
         /\ handlers' = r.list
         /\ result' = [NoResult EXCEPT
                         !.op = "remove_handler",
                         !.outcome = IF r.raised = "none" THEN "return" ELSE "raise",
                         !.error = r.raised,
                         !.handler = h, !.before = handlers]
    /\ UNCHANGED <<storeVars, auxVars>>

Eval(expr, assumptions) ==
    /\ LET r == eval(handlers, expr, assumptions) IN
         result' = [NoResult EXCEPT
                      !.op = "eval", !.outcome = r.outcome, !.error = r.error,
                      !.value = r.value, !.expr = expr,
                      !.assumptions = assumptions,
                      !.calls = r.calls, !.resolved = r.resolved]
    /\ UNCHANGED handlers
    /\ UNCHANGED <<storeVars, auxVars>>

NextPred ==
    \/ \E h \in HandlerIds : AddHandler(h)
    \/ \E h \in HandlerIds : RemoveHandler(h)
    \/ \E expr \in Nodes, assumptions \in FactSets : Eval(expr, assumptions)

\* handlers=None at construction gives a fresh empty list.
InitPred ==
    /\ handlers = <<>>
    /\ result = NoResult

---------------------------------------------------------------------------
(* Specifications                                                          *)

\* No region has begun; no predicate has been constructed.
InitAux ==
    /\ regions = [t \in {"A", "B"} |->
                    [pc |-> "out", assumptions |-> <<>>,
                     old_global_assumptions |-> {}, inscope |-> {}]]
    /\ events = <<>>
    /\ base = {}
    /\ heap = <<>>
    /\ refs = [n \in {"caller", "p", "q"} |-> 0]
    /\ owned = [op |-> "none"]

Init == InitStore /\ InitPred /\ InitAux

SpecStore == Init /\ [][NextStore]_vars

SpecPred == Init /\ [][NextPred]_vars

---------------------------------------------------------------------------
(* Properties of the scoped store                                          *)

\* C1 (scoping round trip): whenever a scope has just exited, on either
\* path, the store holds exactly the content S it held when that scope was
\* entered, whatever facts the scope was given (facts of S included) and
\* whatever add, remove and clear did to the store while it was open.
C1_ScopeRoundTrip ==
    last.op = "exit" => global_assumptions = last.S

\* A scope entered on a non-empty store whose content was changed while it
\* was open has exited, and the store is back to the content at entry.
C1_Witness ==
    /\ last.op = "exit"
    /\ last.changed
    /\ last.S # {}
    /\ global_assumptions = last.S

\* C2 (restore on the error path): when a scope is left by an exception, the
\* state in which that exception is in flight outside the scope has the
\* store already reset to the content at entry, and the exception is the
\* one that was raised: not swallowed, not replaced.
C2_ErrorExitRestoresThenPropagates ==
    (last.op = "exit" /\ last.path = "error") =>
        /\ global_assumptions = last.S
        /\ exc # "none"
        /\ exc = last.raised

\* A scope whose content had changed was left by RuntimeError, which is
\* still in flight.
C2_Witness ==
    /\ last.op = "exit"
    /\ last.path = "error"
    /\ last.changed
    /\ exc = "RuntimeError"
    /\ global_assumptions = last.S

\* C3 (nested scopes, LIFO): the exit of a scope opened inside another one
\* leaves the store with the content at the inner entry and the enclosing
\* scopes open; the exit of a scope that had scopes opened and closed inside
\* it leaves the store with the content at its own entry.
C3_NestedScopesRestoreLIFO ==
    (last.op = "exit" /\ (last.depth >= 2 \/ last.nested)) =>
        /\ global_assumptions = last.S
        /\ Len(scopes) = last.depth - 1

\* The outermost scope, which had an inner scope opened inside it and whose
\* content had changed, has exited.
C3_Witness ==
    /\ last.op = "exit"
    /\ last.depth = 1
    /\ last.nested
    /\ last.changed
    /\ scopes = <<>>
    /\ global_assumptions = last.S

---------------------------------------------------------------------------
(* Properties of the dispatch, stated on the handler classes themselves    *)

Resolvable(h) == h \in DOMAIN Classes

AllResolve(hs) == \A i \in DOMAIN hs : Resolvable(hs[i])

\* h names a class with a method for some type of the lineage of expr.
Matches(h, expr) ==
    /\ Resolvable(h)
    /\ \E j \in DOMAIN mro(expr) : mro(expr)[j] \in DOMAIN Classes[h]

\* The most specific type of the lineage of expr that h has a method for.
FirstType(h, expr) ==
    LET l == mro(expr)
        j == CHOOSE j \in DOMAIN l :
                 /\ l[j] \in DOMAIN Classes[h]
                 /\ \A k \in 1..(j - 1) : l[k] \notin DOMAIN Classes[h]
    IN l[j]

\* What the handler answers for expr: "abstain" when it matches no type.
Answer(h, expr, assumptions) ==
    IF Matches(h, expr)
    THEN call(Classes[h][FirstType(h, expr)], expr, assumptions)
    ELSE "abstain"

Conclusive(v) == v \in {"True", "False"}

\* Two of the first n handlers give different conclusive answers.
Conflict(hs, n, expr, assumptions) ==
    \E i, j \in 1..n :
        /\ Conclusive(Answer(hs[i], expr, assumptions))
        /\ Conclusive(Answer(hs[j], expr, assumptions))
        /\ Answer(hs[i], expr, assumptions) # Answer(hs[j], expr, assumptions)

Evaluated == result.op = "eval"

\* C4 (conflict detection): when every registered identifier resolves and
\* two handlers give different conclusive answers for the node, eval raises
\* ValueError('incompatible resolutors') and returns nothing, wherever the
\* two stand in the list and whatever abstaining or None-returning handlers
\* stand before, between or after them.
C4_ConflictRaises ==
    (/\ Evaluated
     /\ AllResolve(handlers)
     /\ Conflict(handlers, Len(handlers), result.expr, result.assumptions))
    => (result.outcome = "raise" /\ result.error = "ValueError")

\* False, then None, then True for a Symbol: the conflict was raised.
C4_Witness ==
    /\ Evaluated
    /\ handlers = <<"AskFalse", "AskNone", "AskTrue">>
    /\ result.expr = "Symbol"
    /\ result.outcome = "raise"
    /\ result.error = "ValueError"

\* C5 (None never overrides): when every identifier resolves, no two
\* handlers conflict, and some handler answers a conclusive v while every
\* handler registered after it answers None or abstains, eval returns v.
C5_UnknownNeverOverrides ==
    (/\ Evaluated
     /\ AllResolve(handlers)
     /\ ~Conflict(handlers, Len(handlers), result.expr, result.assumptions))
    => \A i \in DOMAIN handlers :
         (/\ Conclusive(Answer(handlers[i], result.expr, result.assumptions))
          /\ \A j \in (i + 1)..Len(handlers) :
                Answer(handlers[j], result.expr, result.assumptions)
                    \in {"None", "abstain"})
         => /\ result.outcome = "return"
            /\ result.value = Answer(handlers[i], result.expr, result.assumptions)

\* True, then two handlers answering None for an Integer: True was returned.
C5_Witness ==
    /\ Evaluated
    /\ handlers = <<"AskTrue", "AskNone", "AskSpecific">>
    /\ result.expr = "Integer"
    /\ result.outcome = "return"
    /\ result.value = "True"

\* C6 (single-handler dispatch): with exactly one registered handler that
\* matches the lineage, eval returns the answer of the method for the most
\* specific matching type, and that method is the only one invoked, also
\* when it answers None and the class has a method for an ancestor type.
C6_SingleHandlerDispatch ==
    (/\ Evaluated
     /\ Len(handlers) = 1
     /\ Matches(handlers[1], result.expr))
    => /\ result.outcome = "return"
       /\ result.value = Answer(handlers[1], result.expr, result.assumptions)
       /\ result.calls = << <<handlers[1], FirstType(handlers[1], result.expr)>> >>

\* AskSpecific alone, asked about an Integer: its Integer method answered
\* None and its Rational method, which answers True, was not consulted.
C6_Witness ==
    /\ Evaluated
    /\ handlers = <<"AskSpecific">>
    /\ result.expr = "Integer"
    /\ result.outcome = "return"
    /\ result.value = "None"
    /\ result.calls = << <<"AskSpecific", "Integer">> >>

\* C7 (no match is Unknown): when no registered handler has a method for any
\* type of the lineage (all identifiers resolving), in particular with no
\* handler registered, eval returns None and invokes nothing, for every
\* node and fact set.
C7_NoMatchIsUnknown ==
    (/\ Evaluated
     /\ \A i \in DOMAIN handlers :
           Resolvable(handlers[i]) /\ ~Matches(handlers[i], result.expr))
    => /\ result.outcome = "return"
       /\ result.value = "None"
       /\ result.calls = <<>>

\* Handlers are registered but none has a method for a Symbol.
C7_Witness ==
    /\ Evaluated
    /\ handlers = <<"AskSpecific", "AskSpecific">>
    /\ result.expr = "Symbol"
    /\ result.outcome = "return"
    /\ result.value = "None"

\* C8 (agreement in either order): when every identifier resolves, two
\* handlers at different positions give the same conclusive answer v and no
\* handler gives the other conclusive answer, eval returns v without error.
C8_AgreementOrderIndependent ==
    (/\ Evaluated
     /\ AllResolve(handlers)
     /\ ~Conflict(handlers, Len(handlers), result.expr, result.assumptions))
    => \A i, j \in DOMAIN handlers :
         (/\ i # j
          /\ Conclusive(Answer(handlers[i], result.expr, result.assumptions))
          /\ Answer(handlers[i], result.expr, result.assumptions)
                = Answer(handlers[j], result.expr, result.assumptions))
         => /\ result.outcome = "return"
            /\ result.error = "none"
            /\ result.value = Answer(handlers[i], result.expr, result.assumptions)

\* Two different handlers both answering True for a Rational, in this order
\* (the other order is the same list reversed, reached as well).
C8_Witness ==
    /\ Evaluated
    /\ handlers = <<"AskSpecific", "AskTrue">>
    /\ result.expr = "Rational"
    /\ result.outcome = "return"
    /\ result.value = "True"

\* C9 (an unresolvable identifier is an error): add_handler succeeds for any
\* identifier and appends it; and when the first identifier get_class cannot
\* resolve is reached by eval (no conflict was raised before it), eval
\* fails with the resolver's error and returns nothing, also after a
\* conclusive answer and for any node.
C9_UnresolvableIsError ==
    /\ (result.op = "add_handler") =>
          /\ result.outcome = "return"
          /\ handlers = Append(result.before, result.handler)
    /\ Evaluated =>
          \A i \in DOMAIN handlers :
            (/\ ~Resolvable(handlers[i])
             /\ \A k \in 1..(i - 1) : Resolvable(handlers[k])
             /\ ~Conflict(handlers, i - 1, result.expr, result.assumptions))
            => /\ result.outcome = "raise"
               /\ result.error = "UnresolvableHandlerError"
               /\ result.value = "None"

\* The unresolvable identifier was registered after a handler answering
\* True, and eval failed with the resolver's error.
C9_Witness ==
    /\ Evaluated
    /\ handlers = <<"AskTrue", "no.such.Handler">>
    /\ result.expr = "Integer"
    /\ result.outcome = "raise"
    /\ result.error = "UnresolvableHandlerError"

\* l without its i-th item
Without(l, i) == [k \in 1..(Len(l) - 1) |-> IF k < i THEN l[k] ELSE l[k + 1]]

\* C10 (handler list): add_handler(h) leaves the list as it was with h
\* appended, registered before or not; remove_handler(h) succeeds exactly
\* when h was in the list and then deletes its first occurrence only,
\* keeping the rest in order; otherwise it raises ValueError and the list is
\* as it was.
C10_HandlerListSemantics ==
    /\ (result.op = "add_handler") =>
          /\ Len(handlers) = Len(result.before) + 1
          /\ handlers[Len(handlers)] = result.handler
          /\ \A k \in DOMAIN result.before : handlers[k] = result.before[k]
    /\ (result.op = "remove_handler") =>
          IF \E k \in DOMAIN result.before : result.before[k] = result.handler
          THEN /\ result.outcome = "return"
               /\ \E i \in DOMAIN result.before :
                     /\ result.before[i] = result.handler
                     /\ \A k \in 1..(i - 1) : result.before[k] # result.handler
                     /\ handlers = Without(result.before, i)
          ELSE /\ result.outcome = "raise"
               /\ result.error = "ValueError"
               /\ handlers = result.before

\* A handler registered twice was removed once: the second registration is
\* still there, after the handler that stood between the two.
C10_Witness ==
    /\ result.op = "remove_handler"
    /\ result.handler = "AskTrue"
    /\ result.before = <<"AskTrue", "AskNone", "AskTrue">>
    /\ handlers = <<"AskNone", "AskTrue">>

---------------------------------------------------------------------------
(* Properties of AssumptionsContext.add                                    *)

\* C13 (add is idempotent): every call add(f1, ..., fn) on content S leaves
\* the store equal to S with f1..fn joined; when every fi is already in S,
\* or the same fact is passed twice, nothing more changes: a call whose
\* facts are all present leaves the store as it was.
C13_AddIdempotent ==
    [][\A t \in ArgTuples :
          Add(t) =>
             /\ global_assumptions' = global_assumptions \cup Range(t)
             /\ (Range(t) \subseteq global_assumptions
                    => global_assumptions' = global_assumptions)
             /\ (\A u \in ArgTuples :
                    Range(u) = Range(t) =>
                       add(global_assumptions', u) = global_assumptions')]_vars

\* An add of facts that were all in a non-empty store has left it unchanged.
C13_Witness ==
    /\ last.op = "add"
    /\ last.present
    /\ ~last.changed
    /\ last.S # {}
    /\ global_assumptions = last.S

---------------------------------------------------------------------------
(* Queries against the scoped store                                        *)

\* The handlers of the predicate asked about: the one that answers from the
\* facts it is given (True when fact 1 is among them).
AskedHandlers == <<"AskFacts">>

\* AppliedAssumptionsPredicate._eval_ask(assumptions):
\* self.func.eval(self.arg, assumptions)
eval_ask(hs, arg, assumptions) == eval(hs, arg, assumptions)

\* A query about a Symbol evaluated against the current content of the
\* global store, as in the docstring of assuming.
Ask ==
    /\ exc = "none"
    /\ LET r == eval_ask(AskedHandlers, "Symbol", global_assumptions) IN
         last' = [Did("ask") EXCEPT !.value = r.value]
    /\ UNCHANGED <<global_assumptions, scopes, exc, handlers, result, auxVars>>

NextQuery == NextStore \/ Ask

SpecQuery == Init /\ [][NextQuery]_vars

\* C16 (facts of a scope are visible exactly while it is open): entering
\* assuming(f1, ..., fn) on content S leaves the store equal to S joined
\* with f1..fn; a query answers from exactly what the store holds at that
\* moment, so inside the scope it sees every fi; and when the scope exits
\* the store, hence the query, is back to S.
C16_ScopeFactsVisibleWhileOpen ==
    [][/\ \A t \in ArgTuples :
             Enter(t) => global_assumptions' = global_assumptions \cup Range(t)
       /\ Ask => last'.value = (IF 1 \in global_assumptions THEN "True" ELSE "None")
       /\ Exit => global_assumptions' = scopes[Len(scopes)].S]_vars

\* Inside a scope entered on a store without fact 1, the query has answered
\* True.
C16_Witness ==
    /\ last.op = "ask"
    /\ last.value = "True"
    /\ Len(scopes) = 1
    /\ 1 \notin scopes[1].S
    /\ 1 \in global_assumptions

---------------------------------------------------------------------------
(* Precedence among the handlers, and what a conflict stops                *)

\* C14 as amended (a None answer does not claim settlement): whenever eval
\* returns None, no registered handler gives a conclusive answer for the
\* node; so no handler list makes eval return None while a handler
\* registered after a None-answering one answers True or False.
C14_UnknownDoesNotClaimSettlement ==
    (Evaluated /\ result.outcome = "return" /\ result.value = "None")
    => \A i \in DOMAIN handlers :
          ~Conclusive(Answer(handlers[i], result.expr, result.assumptions))

\* A handler answering None stands before one answering True, and eval
\* returned True.
C14_Witness ==
    /\ Evaluated
    /\ handlers = <<"AskNone", "AskTrue">>
    /\ result.expr = "Symbol"
    /\ result.outcome = "return"
    /\ result.value = "True"

\* C14 as claimed (a None answer claims settlement): when the first handler
\* that matches the lineage answers None, eval returns None, although a
\* handler registered later answers True or False.
C14_UnknownClaimsSettlement ==
    (/\ Evaluated
     /\ AllResolve(handlers)
     /\ ~Conflict(handlers, Len(handlers), result.expr, result.assumptions)
     /\ \E i \in DOMAIN handlers :
           /\ Answer(handlers[i], result.expr, result.assumptions) = "None"
           /\ \A k \in 1..(i - 1) :
                 Answer(handlers[k], result.expr, result.assumptions) = "abstain")
    => (result.outcome = "return" /\ result.value = "None")

\* C15 (a later conclusive answer is adopted): when every identifier
\* resolves and every handler before H answers None or abstains while H
\* answers a conclusive v, the running answer after H is v, and eval returns
\* v unless a handler after H gives the other conclusive answer, in which
\* case it raises the conflict.
C15_LaterConclusiveAdopted ==
    (Evaluated /\ AllResolve(handlers))
    => \A i \in DOMAIN handlers :
         LET v == Answer(handlers[i], result.expr, result.assumptions)
             upto == eval(SubSeq(handlers, 1, i), result.expr, result.assumptions)
         IN (/\ Conclusive(v)
             /\ \A k \in 1..(i - 1) :
                   Answer(handlers[k], result.expr, result.assumptions)
                       \in {"None", "abstain"})
            => /\ upto.outcome = "return" /\ upto.value = v
               /\ IF \E j \in (i + 1)..Len(handlers) :
                        /\ Conclusive(Answer(handlers[j], result.expr, result.assumptions))
                        /\ Answer(handlers[j], result.expr, result.assumptions) # v
                  THEN result.outcome = "raise" /\ result.error = "ValueError"
                  ELSE result.outcome = "return" /\ result.value = v

\* Two handlers answering None for an Integer stand before one answering
\* True, and eval returned True.
C15_Witness ==
    /\ Evaluated
    /\ handlers = <<"AskNone", "AskSpecific", "AskTrue">>
    /\ result.expr = "Integer"
    /\ result.outcome = "return"
    /\ result.value = "True"

\* The number of the first n handlers that match the lineage of expr.
MatchCount(hs, n, expr) == Cardinality({i \in 1..n : Matches(hs[i], expr)})

\* k is the position at which the first conflict shows.
FirstConflictAt(hs, k, expr, assumptions) ==
    /\ Conflict(hs, k, expr, assumptions)
    /\ ~Conflict(hs, k - 1, expr, assumptions)

\* C17 (a conflict is a hard stop): when the k-th handler is the first to
\* conflict with an earlier conclusive answer (the first k identifiers
\* resolving), eval ends with ValueError and yields no value, and exactly
\* the first k identifiers were resolved and only methods of the first k
\* handlers were invoked, the last by the k-th: nothing registered after it
\* is resolved or invoked, resolvable or not.
C17_ConflictIsHardStop ==
    Evaluated =>
      \A k \in DOMAIN handlers :
        (/\ FirstConflictAt(handlers, k, result.expr, result.assumptions)
         /\ \A i \in 1..k : Resolvable(handlers[i]))
        => /\ result.outcome = "raise"
           /\ result.error = "ValueError"
           /\ result.value = "None"
           /\ result.resolved = SubSeq(handlers, 1, k)
           /\ Len(result.calls) = MatchCount(handlers, k, result.expr)
           /\ result.calls[Len(result.calls)][1] = handlers[k]

\* True and False conflict, and the unresolvable identifier registered after
\* them was never handed to get_class.
C17_Witness ==
    /\ Evaluated
    /\ handlers = <<"AskTrue", "AskFalse", "no.such.Handler">>
    /\ result.outcome = "raise"
    /\ result.error = "ValueError"
    /\ result.resolved = <<"AskTrue", "AskFalse">>

\* hs with its i-th and j-th items exchanged
Swap(hs, i, j) ==
    [k \in DOMAIN hs |-> IF k = i THEN hs[j] ELSE IF k = j THEN hs[i] ELSE hs[k]]

\* The outcome of eval when every identifier resolves, as a function of the
\* set of answers alone: the conflict iff two conclusive answers differ,
\* else the common conclusive answer if there is one, else None; and the
\* same outcome for the list with any two handlers exchanged.
OutcomeByAnswers ==
    LET answers == {Answer(handlers[i], result.expr, result.assumptions) :
                       i \in DOMAIN handlers}
    IN /\ IF Conflict(handlers, Len(handlers), result.expr, result.assumptions)
          THEN result.outcome = "raise" /\ result.error = "ValueError"
          ELSE /\ result.outcome = "return"
               /\ result.value = (IF "True" \in answers THEN "True"
                                  ELSE IF "False" \in answers THEN "False"
                                  ELSE "None")
       /\ \A i, j \in DOMAIN handlers :
             LET other == eval(Swap(handlers, i, j), result.expr, result.assumptions)
             IN /\ other.outcome = result.outcome
                /\ other.value = result.value
                /\ other.error = result.error

\* C19 as amended (the outcome does not depend on the order): with every
\* identifier resolving, the outcome is the one fixed by the set of answers
\* and is the same for every reordering of the list; when eval returns,
\* every registered handler was resolved and every matching one invoked (no
\* short-circuit after a conclusive answer); when it raises the conflict,
\* the handlers after the conflicting one were not consulted.
C19_OutcomePermutationInvariant ==
    (Evaluated /\ AllResolve(handlers))
    => /\ OutcomeByAnswers
       /\ (result.outcome = "return") =>
             /\ result.resolved = handlers
             /\ Len(result.calls) = MatchCount(handlers, Len(handlers), result.expr)
       /\ (result.outcome = "raise") =>
             \E k \in DOMAIN handlers :
                /\ FirstConflictAt(handlers, k, result.expr, result.assumptions)
                /\ result.resolved = SubSeq(handlers, 1, k)

\* A conclusive answer came first and the two handlers after it were still
\* resolved and invoked.
C19_Witness ==
    /\ Evaluated
    /\ handlers = <<"AskSpecific", "AskNone", "AskTrue">>
    /\ result.expr = "Rational"
    /\ result.outcome = "return"
    /\ result.value = "True"
    /\ result.resolved = handlers
    /\ Len(result.calls) = 3

\* C19 as claimed: the outcome fixed by the set of answers, the same for
\* every reordering, and every registered handler consulted in every
\* evaluation.
C19_EveryHandlerConsulted ==
    (Evaluated /\ AllResolve(handlers))
    => /\ OutcomeByAnswers
       /\ result.resolved = handlers

---------------------------------------------------------------------------
(* Two assuming(...) regions on the one store, run by two threads of       *)
(* control.  Each statement of the generator is a step of its own, and the *)
(* steps of the two regions interleave freely.                             *)

Threads == {"A", "B"}

Other(t) == IF t = "A" THEN "B" ELSE "A"

\* What a region is entered with: one fact.
RegionArgs == {<<a>> : a \in Facts}

\* An exit allowed only to the region entered last among the open ones.
exit_only_lifo(regs, t) ==
    regs[Other(t)].pc \in {"out", "done"}
        \/ \E i, j \in DOMAIN events :
              /\ events[i] = <<Other(t), "copy">>
              /\ events[j] = <<t, "copy">>
              /\ i < j

\* The generator is resumed whenever its with block ends: neither the store
\* nor the generator checks that the scope is the one entered last.
exit_allowed(regs, t) == TRUE

\* The finally block done as one assignment of the snapshot.
exit_first_step_assigns(store, old) == old

\* global_assumptions.clear()
exit_first_step(store, old) == clear(store)

\* global_assumptions.update(old_global_assumptions)
exit_second_step(store, old) == update(store, old)

\* old_global_assumptions = global_assumptions.copy()
TCopy(t, assumptions) ==
    /\ regions[t].pc = "out"
    /\ regions' = [regions EXCEPT
                     ![t].pc = "copied",
                     ![t].assumptions = assumptions,
                     ![t].old_global_assumptions = copy(global_assumptions)]
    /\ events' = Append(events, <<t, "copy">>)
    /\ UNCHANGED <<global_assumptions, base>>

\* global_assumptions.update(assumptions), then the yield
TEnter(t) ==
    /\ regions[t].pc = "copied"
    /\ global_assumptions' =
          update(global_assumptions, Range(regions[t].assumptions))
    /\ regions' = [regions EXCEPT ![t].pc = "in"]
    /\ events' = Append(events, <<t, "enter">>)
    /\ UNCHANGED base

\* The with block ends and the finally block starts: clear()
TClear(t) ==
    /\ regions[t].pc = "in"
    /\ exit_allowed(regions, t)
    /\ global_assumptions' =
          exit_first_step(global_assumptions, regions[t].old_global_assumptions)
    /\ regions' = [regions EXCEPT ![t].pc = "cleared",
                                  ![t].inscope = global_assumptions]
    /\ events' = Append(events, <<t, "clear">>)
    /\ UNCHANGED base

\* update(old_global_assumptions), and the generator finishes
TRestore(t) ==
    /\ regions[t].pc = "cleared"
    /\ global_assumptions' =
          exit_second_step(global_assumptions, regions[t].old_global_assumptions)
    /\ regions' = [regions EXCEPT ![t].pc = "done"]
    /\ events' = Append(events, <<t, "restore">>)
    /\ UNCHANGED base

NextThreads ==
    /\ \E t \in Threads :
          \/ \E a \in RegionArgs : TCopy(t, a)
          \/ TEnter(t)
          \/ TClear(t)
          \/ TRestore(t)
    /\ UNCHANGED <<scopes, exc, last, handlers, result, ownVars>>

\* The regions begin on any content the store can hold.
InitThreads ==
    /\ global_assumptions \in SUBSET Facts
    /\ base = global_assumptions
    /\ scopes = <<>>
    /\ exc = "none"
    /\ last = NoLast
    /\ InitPred
    /\ regions = [t \in Threads |->
                    [pc |-> "out", assumptions |-> <<>>,
                     old_global_assumptions |-> {}, inscope |-> {}]]
    /\ events = <<>>
    /\ heap = <<>>
    /\ refs = [n \in {"caller", "p", "q"} |-> 0]
    /\ owned = [op |-> "none"]

SpecThreads == InitThreads /\ [][NextThreads]_vars

AllDone == \A t \in Threads : regions[t].pc = "done"

\* The position in events of the step of region t, 0 when not yet taken.
At(t, step) ==
    IF \E i \in DOMAIN events : events[i] = <<t, step>>
    THEN CHOOSE i \in DOMAIN events : events[i] = <<t, step>>
    ELSE 0

\* Region t was entered before region u and left before u was left, while u
\* was open: enter t, enter u, exit t, exit u.
Interleaved(t, u) ==
    /\ At(t, "enter") < At(u, "copy")
    /\ At(u, "enter") < At(t, "clear")
    /\ At(t, "restore") < At(u, "clear")

\* C11 (interleaved scopes are not restored): a region that is open may
\* always start its exit, whatever the other region has done (nothing
\* rejects a non-LIFO exit); and once both regions have exited, the store
\* holds the snapshots of exactly the regions whose update came after the
\* last clear.  For enter A, enter B, exit A, exit B this is B's snapshot,
\* that is, the content before either region began together with A's facts.
C11_InterleavedScopesCorrupt ==
    /\ \A t \in Threads : regions[t].pc = "in" => ENABLED TClear(t)
    /\ AllDone =>
          /\ global_assumptions =
                UNION {regions[t].old_global_assumptions :
                          t \in {u \in Threads :
                                   \A v \in Threads :
                                      At(v, "clear") < At(u, "restore")}}
          /\ \A t \in Threads :
                Interleaved(t, Other(t)) =>
                   global_assumptions = base \cup Range(regions[t].assumptions)

\* Enter A, enter B, exit A, exit B: both regions have exited and the store
\* is not what it was before either began; it holds B's snapshot, which has
\* A's fact in it.
C11_Witness ==
    /\ AllDone
    /\ Interleaved("A", "B")
    /\ global_assumptions # base
    /\ global_assumptions = regions["B"].old_global_assumptions
    /\ Range(regions["A"].assumptions) \subseteq global_assumptions

\* Region t is the only one that has begun.
Alone(t) == regions[Other(t)].pc = "out"

\* C18 as amended (the exit is two steps): during the exit of a scope an
\* observer of the store sees the in-scope content until clear() has run,
\* then the empty store, and the entry snapshot once update() has run; it
\* sees no other content.
C18_ExitIsClearThenUpdate ==
    \A t \in Threads :
       Alone(t) =>
          /\ regions[t].pc = "in" =>
                global_assumptions = regions[t].old_global_assumptions
                                        \cup Range(regions[t].assumptions)
          /\ regions[t].pc = "cleared" => global_assumptions = {}
          /\ regions[t].pc = "done" =>
                global_assumptions = regions[t].old_global_assumptions

\* Between clear() and update() of the exit of the only scope, the store is
\* empty, although neither the in-scope content nor the snapshot is.
C18_Witness ==
    \E t \in Threads :
       /\ Alone(t)
       /\ regions[t].pc = "cleared"
       /\ global_assumptions = {}
       /\ regions[t].inscope # {}
       /\ regions[t].old_global_assumptions # {}

\* C18 as claimed (the exit is one atomic assignment): from the start of the
\* exit on, the store holds either the in-scope content or the entry
\* snapshot.
C18_ExitIsAtomic ==
    \A t \in Threads :
       (Alone(t) /\ regions[t].pc \in {"cleared", "done"}) =>
          global_assumptions \in {regions[t].inscope,
                                  regions[t].old_global_assumptions}

---------------------------------------------------------------------------
(* Handler lists as objects.  A Python list is an object that several      *)
(* names can refer to: heap holds the list objects, refs says which object *)
(* the caller's variable and the handlers attribute of the predicates p    *)
(* and q refer to (0: none yet).                                           *)

MaxShared == 2

Holders == {"caller", "p", "q"}

Predicates == {"p", "q"}

OwnIds == {"AskTrue", "AskNone"}

\* The lists a caller builds before constructing predicates.
OwnLists == {<<>>} \cup {<<h>> : h \in OwnIds}

\* A list display or literal: a new object.
new_list(hp, l) == [heap |-> Append(hp, l), ref |-> Len(hp) + 1]

\* self.handlers = handlers or []
\* (given: the object passed as handlers, 0 for None).  A list that is not empty is
\* truthy, and `or` then gives the object itself, not a copy of it.
init_handlers(hp, given) ==
    IF given = 0 \/ hp[given] = <<>>
    THEN new_list(hp, <<>>)
    ELSE [heap |-> hp, ref |-> given]

\* The list a holder sees.
View(hp, rf, n) == IF rf[n] = 0 THEN <<>> ELSE hp[rf[n]]

Views(hp, rf) == [n \in Holders |-> View(hp, rf, n)]

\* hs = [...]
OwnList(l) ==
    /\ refs["caller"] = 0
    /\ LET r == new_list(heap, l) IN
         /\ heap' = r.heap
         /\ refs' = [refs EXCEPT !["caller"] = r.ref]
    /\ owned' = [op |-> "none"]

\* n = Predicate(name, handlers), handlers being None or the caller's list
OwnInit(n, arg) ==
    /\ refs[n] = 0
    /\ arg = "caller" => refs["caller"] # 0
    /\ LET r == init_handlers(heap, IF arg = "caller" THEN refs["caller"] ELSE 0) IN
         /\ heap' = r.heap
         /\ refs' = [refs EXCEPT ![n] = r.ref]
    /\ owned' = [op |-> "none"]

\* n.add_handler(h)
OwnAddHandler(n, h) ==
    /\ refs[n] # 0
    /\ Len(heap[refs[n]]) < MaxShared
    /\ heap' = [heap EXCEPT ![refs[n]] = add_handler(@, h).list]
    /\ owned' = [op |-> "add_handler", on |-> n, before |-> Views(heap, refs)]
    /\ UNCHANGED refs

\* n.remove_handler(h)
OwnRemoveHandler(n, h) ==
    /\ refs[n] # 0
    /\ heap' = [heap EXCEPT ![refs[n]] = remove_handler(@, h).list]
    /\ owned' = [op |-> "remove_handler", on |-> n, before |-> Views(heap, refs)]
    /\ UNCHANGED refs

NextOwn ==
    /\ \/ \E l \in OwnLists : OwnList(l)
       \/ \E n \in Predicates, arg \in {"None", "caller"} : OwnInit(n, arg)
       \/ \E n \in Predicates, h \in OwnIds : OwnAddHandler(n, h)
       \/ \E n \in Predicates, h \in OwnIds : OwnRemoveHandler(n, h)
    /\ UNCHANGED <<storeVars, predVars, threadVars>>

SpecOwn == Init /\ [][NextOwn]_vars

\* Every operation of the module.
Next == NextStore \/ NextPred \/ Ask \/ NextThreads \/ NextOwn

Spec == Init /\ [][Next]_vars

\* C12 (a predicate owns its handler list): right after add_handler or
\* remove_handler on one predicate, the handler list of the other predicate
\* and the list held by the caller are what they were before the call.
C12_PredicateOwnsHandlerList ==
    owned.op \in {"add_handler", "remove_handler"} =>
       \A n \in Holders \ {owned.on} :
          View(heap, refs, n) = owned.before[n]

\* The claim's case, and the way it fails: p and q were constructed from the
\* caller's list, which was not empty, and add_handler on p has just changed
\* the list of q and the caller's.
C12_SharedListChanged ==
    /\ owned.op = "add_handler"
    /\ owned.on = "p"
    /\ refs["caller"] # 0
    /\ refs["p"] = refs["caller"]
    /\ refs["q"] = refs["caller"]
    /\ View(heap, refs, "q") # owned.before["q"]
    /\ View(heap, refs, "caller") # owned.before["caller"]

=============================================================================
